---------------------------- MODULE Spec2Model ----------------------------
(***************************************************************************)
(* Model of package chans (src/chans.go): the guarded channel operations   *)
(* Send, Receive and Close and the guarded pointer read Deref, called by   *)
(* several goroutines on one channel made with make(chan T, cap) and on    *)
(* the nil channel.  The statements `c <- value`, `<-c` and `close(c)`     *)
(* behave as the Go language defines them: a send to or a close of a       *)
(* closed channel panics, a receive from a closed and drained channel      *)
(* yields (zero, false), senders and receivers park in FIFO queues.        *)
(***************************************************************************)
EXTENDS Integers, Sequences, FiniteSets, TLC

\* ------------------------------------------------------------ bounds
NumThreads == 2      \* goroutines calling the package
MaxVal     == 2      \* Send calls made in one behaviour (values 1..MaxVal)
MaxCap     == 2      \* largest buffer capacity given to make(chan T, cap)

Threads == 1..NumThreads
Values  == 1..MaxVal

\* ------------------------------------------------------------ values
\* `var result T` / `var x T`: the zero value of the element type.
Zero == 0

\* The two channel handles a caller can pass: the nil channel (`var cc chan
\* int`) and the channel made by make.
NilChan  == "nil"
TheChan  == "ch"
Handles  == {NilChan, TheChan}

\* The pointers a caller can pass to Deref: nil, or the address of a variable.
NilPtr == "nilptr"
Ptrs   == {"p1", "p2"}

\* `var err error`: the nil error.
NoErr == "<nil>"

\* The error texts of chans.go, up to the colon that starts the %v fields.
ErrSendNil     == "Send on nil channel"
ErrSendPanic   == "Send panic"
ErrRecvNil     == "Receive on nil channel"
ErrRecvPanic   == "Receive panic"
ErrRecvClosed  == "Receive on closed channel"
ErrCloseNil    == "Close on nil channel"
ErrClosePanic  == "Close panic"
ErrDerefNil    == "Deref on nil pointer"
ErrDerefPanic  == "Deref panic"

\* The values the runtime panics with, as recover() returns them.
NoPanic          == "none"
PanicSendClosed  == "send on closed channel"
PanicCloseClosed == "close of closed channel"
PanicCloseNil    == "close of nil channel"

\* The failure kind an error text stands for.
Kind(err) ==
    CASE err = NoErr -> "Success"
      [] err \in {ErrSendNil, ErrRecvNil, ErrCloseNil} -> "NilChannel"
      [] err = ErrRecvClosed -> "ClosedChannel"
      [] err = ErrDerefNil -> "NilReference"
      [] err \in {ErrSendPanic, ErrRecvPanic, ErrClosePanic, ErrDerefPanic}
           -> "OperationFault"

\* ------------------------------------------------------------ state
VARIABLES
    ch,        \* the channel made by make: closed flag, capacity, buffer (oldest
               \* first), parked senders [t, v] and parked receivers (oldest first)
    mem,       \* the variables the non-nil pointers designate
    pc,        \* where each goroutine is in its current call
    arg,       \* the operation and arguments of its call in progress
    wake,      \* what a parked goroutine was woken with
    ret,       \* the call that returned last: who called what, and the result
    nextVal,   \* the value the next Send call passes
    crashed,   \* a panic left a call unrecovered
    sendRes,   \* per value: the outcome of the Send call that passed it
    sendLog,   \* the values `c <- value` took without panicking at once, in
               \* the order the statements ran
    recvLog,   \* the values Receive calls returned with a nil error, in order
    closeOk    \* the number of Close calls that returned a nil error

vars == <<ch, mem, pc, arg, wake, ret, nextVal, crashed, sendRes, sendLog,
          recvLog, closeOk>>

NoArg  == [op |-> "none", ch |-> NilChan, v |-> Zero]
NoWake == [ok |-> TRUE, v |-> Zero]
NoRet  == [t |-> 0, op |-> "none", ch |-> NilChan, arg |-> Zero,
           err |-> NoErr, v |-> Zero, r |-> NoPanic, saw |-> "none"]

\* The call op(h, a) of goroutine t returns (v, err); r is the panic value its
\* deferred function recovered, if any; saw is how its channel statement
\* found the channel: "closed", "open" (and it completed at once), "parked"
\* (it had to wait), or "none" (the call ran no channel statement).
Returned(t, op, h, a, err, v, r, saw) ==
    [t |-> t, op |-> op, ch |-> h, arg |-> a, err |-> err, v |-> v, r |-> r,
     saw |-> saw]

\* How a channel statement that does not park finds channel c.
Saw(c, h) == IF h = NilChan THEN "none" ELSE IF c.closed THEN "closed" ELSE "open"

\* make(chan T, n): an open, empty channel of capacity n.
MakeChan(n) ==
    [closed |-> FALSE, cap |-> n, buf |-> <<>>, sendq |-> <<>>, recvq |-> <<>>]

Range(s) == {s[i] : i \in 1..Len(s)}

Init ==
    /\ \E n \in 0..MaxCap : ch = MakeChan(n)
    /\ mem = [p \in Ptrs |-> IF p = "p1" THEN 1 ELSE Zero]
    /\ pc = [t \in Threads |-> "idle"]
    /\ arg = [t \in Threads |-> NoArg]
    /\ wake = [t \in Threads |-> NoWake]
    /\ ret = NoRet
    /\ nextVal = 1
    /\ crashed = FALSE
    /\ sendRes = [v \in Values |-> "unsent"]
    /\ sendLog = <<>>
    /\ recvLog = <<>>
    /\ closeOk = 0

\* ------------------------------------------------- channel statements
\* What one execution of a channel statement does to the channel c:
\*   c     the channel afterwards
\*   res   "done" (the statement completed), "park" (the goroutine waits in
\*         a queue of c), "never" (it waits on nothing and is never woken)
\*         or "panic" (the statement panicked with r)
\*   v,ok  what a completed receive yields
\*   wakes the parked goroutines the statement woke, each with what it
\*         wakes to
Out(c, res, r, v, ok, wakes) ==
    [c |-> c, res |-> res, r |-> r, v |-> v, ok |-> ok, wakes |-> wakes]

\* `c <- value` on the channel made by make.
ChanSend(c, t, v) ==
    IF c.closed THEN
        Out(c, "panic", PanicSendClosed, Zero, TRUE, {})
    ELSE IF c.recvq # <<>> THEN
        Out([c EXCEPT !.recvq = Tail(@)], "done", NoPanic, Zero, TRUE,
            {[t |-> Head(c.recvq), ok |-> TRUE, v |-> v]})
    ELSE IF Len(c.buf) < c.cap THEN
        Out([c EXCEPT !.buf = Append(@, v)], "done", NoPanic, Zero, TRUE, {})
    ELSE
        Out([c EXCEPT !.sendq = Append(@, [t |-> t, v |-> v])],
            "park", NoPanic, Zero, TRUE, {})

\* The sequence s without its last element, and that element.
Front(s) == SubSeq(s, 1, Len(s) - 1)
Last(s)  == s[Len(s)]

\* ChanRecv that takes the newest buffered value instead of the oldest.
ChanRecvLifo(c, t) ==
    IF c.closed /\ c.buf = <<>> THEN
        Out(c, "done", NoPanic, Zero, FALSE, {})
    ELSE IF c.sendq # <<>> THEN
        LET s == Head(c.sendq) IN
        IF c.buf = <<>> THEN
            Out([c EXCEPT !.sendq = Tail(@)], "done", NoPanic, s.v, TRUE,
                {[t |-> s.t, ok |-> TRUE, v |-> s.v]})
        ELSE
            Out([c EXCEPT !.sendq = Tail(@),
                          !.buf = Append(Front(@), s.v)],
                "done", NoPanic, Last(c.buf), TRUE,
                {[t |-> s.t, ok |-> TRUE, v |-> s.v]})
    ELSE IF c.buf # <<>> THEN
        Out([c EXCEPT !.buf = Front(@)], "done", NoPanic, Last(c.buf), TRUE, {})
    ELSE
        Out([c EXCEPT !.recvq = Append(@, t)], "park", NoPanic, Zero, TRUE, {})

\* ChanRecv that reads a value and leaves it in the channel.
ChanRecvPeek(c, t) ==
    IF c.closed /\ c.buf = <<>> THEN
        Out(c, "done", NoPanic, Zero, FALSE, {})
    ELSE IF c.buf # <<>> THEN
        Out(c, "done", NoPanic, Head(c.buf), TRUE, {})
    ELSE IF c.sendq # <<>> THEN
        Out(c, "done", NoPanic, Head(c.sendq).v, TRUE, {})
    ELSE
        Out([c EXCEPT !.recvq = Append(@, t)], "park", NoPanic, Zero, TRUE, {})

\* `result, ok = <-c` on the channel made by make.
ChanRecv(c, t) ==
    IF c.closed /\ c.buf = <<>> THEN
        Out(c, "done", NoPanic, Zero, FALSE, {})
    ELSE IF c.sendq # <<>> THEN
        LET s == Head(c.sendq) IN
        IF c.buf = <<>> THEN
            Out([c EXCEPT !.sendq = Tail(@)], "done", NoPanic, s.v, TRUE,
                {[t |-> s.t, ok |-> TRUE, v |-> s.v]})
        ELSE
            Out([c EXCEPT !.sendq = Tail(@),
                          !.buf = Append(Tail(@), s.v)],
                "done", NoPanic, Head(c.buf), TRUE,
                {[t |-> s.t, ok |-> TRUE, v |-> s.v]})
    ELSE IF c.buf # <<>> THEN
        Out([c EXCEPT !.buf = Tail(@)], "done", NoPanic, Head(c.buf), TRUE, {})
    ELSE
        Out([c EXCEPT !.recvq = Append(@, t)], "park", NoPanic, Zero, TRUE, {})

\* CloseChan that marks the channel closed and wakes nobody.
CloseChanNoWake(c) ==
    IF c.closed THEN
        Out(c, "panic", PanicCloseClosed, Zero, TRUE, {})
    ELSE
        Out([c EXCEPT !.closed = TRUE], "done", NoPanic, Zero, TRUE, {})

\* CloseChan that opens a closed channel again.
CloseChanToggle(c) ==
    IF c.closed THEN
        Out([c EXCEPT !.closed = FALSE], "done", NoPanic, Zero, TRUE, {})
    ELSE
        Out([c EXCEPT !.closed = TRUE, !.recvq = <<>>, !.sendq = <<>>],
            "done", NoPanic, Zero, TRUE,
            {[t |-> c.recvq[i], ok |-> FALSE, v |-> Zero] :
                 i \in 1..Len(c.recvq)}
            \cup {[t |-> c.sendq[i].t, ok |-> FALSE, v |-> c.sendq[i].v] :
                 i \in 1..Len(c.sendq)})

\* CloseChan that stores the values of the parked senders in the buffer.
CloseChanFlush(c) ==
    IF c.closed THEN
        Out(c, "panic", PanicCloseClosed, Zero, TRUE, {})
    ELSE
        Out([c EXCEPT !.closed = TRUE, !.recvq = <<>>, !.sendq = <<>>,
                      !.buf = @ \o [i \in 1..Len(c.sendq) |-> c.sendq[i].v]],
            "done", NoPanic, Zero, TRUE,
            {[t |-> c.recvq[i], ok |-> FALSE, v |-> Zero] :
                 i \in 1..Len(c.recvq)}
            \cup {[t |-> c.sendq[i].t, ok |-> FALSE, v |-> c.sendq[i].v] :
                 i \in 1..Len(c.sendq)})

\* CloseChan that does not panic on a closed channel.
CloseChanAgain(c) ==
    IF c.closed THEN
        Out(c, "done", NoPanic, Zero, TRUE, {})
    ELSE
        Out([c EXCEPT !.closed = TRUE, !.recvq = <<>>, !.sendq = <<>>],
            "done", NoPanic, Zero, TRUE,
            {[t |-> c.recvq[i], ok |-> FALSE, v |-> Zero] :
                 i \in 1..Len(c.recvq)}
            \cup {[t |-> c.sendq[i].t, ok |-> FALSE, v |-> c.sendq[i].v] :
                 i \in 1..Len(c.sendq)})

\* `close(c)` on the channel made by make.
CloseChan(c) ==
    IF c.closed THEN
        Out(c, "panic", PanicCloseClosed, Zero, TRUE, {})
    ELSE
        Out([c EXCEPT !.closed = TRUE, !.recvq = <<>>, !.sendq = <<>>],
            "done", NoPanic, Zero, TRUE,
            {[t |-> c.recvq[i], ok |-> FALSE, v |-> Zero] :
                 i \in 1..Len(c.recvq)}
            \cup {[t |-> c.sendq[i].t, ok |-> FALSE, v |-> c.sendq[i].v] :
                 i \in 1..Len(c.sendq)})

\* ------------------------------------------------- the guards of chans.go
\* A nil check that never finds nil.
IsNilNever(h) == FALSE

\* `ch == nil` / `c == nil` / `ptr == nil`.
IsNil(h) == h \in {NilChan, NilPtr}

\* The deferred functions: `if r := recover(); r != nil { err = ... }`.
\* crash: the panic r went on past the call.
\* A deferred function of Send that does not call recover().
SendDeferredNoRecover(r, err) ==
    [crash |-> r # NoPanic, err |-> err]

\* A deferred function of Send that recovers the panic and leaves err as
\* it was.
SendDeferredSwallow(r, err) ==
    [crash |-> FALSE, err |-> err]

SendDeferred(r, err) ==
    [crash |-> FALSE, err |-> IF r # NoPanic THEN ErrSendPanic ELSE err]

\* A deferred function of Receive with the test of recover() inverted.
ReceiveDeferredInverted(r, err) ==
    [crash |-> FALSE, err |-> IF r = NoPanic THEN ErrRecvPanic ELSE err]

ReceiveDeferred(r, err) ==
    [crash |-> FALSE, err |-> IF r # NoPanic THEN ErrRecvPanic ELSE err]

\* A deferred function of Close that does not call recover().
CloseDeferredNoRecover(r, err) ==
    [crash |-> r # NoPanic, err |-> err]

\* A deferred function of Close that recovers the panic and leaves err as
\* it was.
CloseDeferredSwallow(r, err) ==
    [crash |-> FALSE, err |-> err]

CloseDeferred(r, err) ==
    [crash |-> FALSE, err |-> IF r # NoPanic THEN ErrClosePanic ELSE err]

\* A deferred function of Deref with the test of recover() inverted.
DerefDeferredInverted(r, err) ==
    [crash |-> r # NoPanic, err |-> IF r = NoPanic THEN ErrDerefPanic ELSE err]

DerefDeferred(r, err) ==
    [crash |-> FALSE, err |-> IF r # NoPanic THEN ErrDerefPanic ELSE err]

\* A closure of Send that gives up instead of waiting: where `c <- value`
\* would park, it ends without having sent.
SendBodyNoWait(c, t, h, v) ==
    IF IsNil(h) THEN Out(c, "done", NoPanic, Zero, TRUE, {})
    ELSE IF h = NilChan THEN Out(c, "never", NoPanic, Zero, TRUE, {})
    ELSE IF ChanSend(c, t, v).res = "park"
         THEN Out(c, "done", NoPanic, Zero, TRUE, {})
         ELSE ChanSend(c, t, v)

\* The closure of Send: the inner nil check, then `c <- value`.
SendBody(c, t, h, v) ==
    IF IsNil(h) THEN Out(c, "done", NoPanic, Zero, TRUE, {})
    ELSE IF h = NilChan THEN Out(c, "never", NoPanic, Zero, TRUE, {})
    ELSE ChanSend(c, t, v)

\* The closure of Receive: the inner nil check, then `result, ok = <-c`.
ReceiveBody(c, t, h) ==
    IF IsNil(h) THEN Out(c, "done", NoPanic, Zero, TRUE, {})
    ELSE IF h = NilChan THEN Out(c, "never", NoPanic, Zero, TRUE, {})
    ELSE ChanRecv(c, t)

\* A closure of Close that waits for the buffer to drain before it closes.
CloseBodyDrains(c, h) ==
    IF IsNil(h) THEN Out(c, "done", NoPanic, Zero, TRUE, {})
    ELSE IF h = NilChan THEN Out(c, "panic", PanicCloseNil, Zero, TRUE, {})
    ELSE IF c.buf # <<>> THEN Out(c, "never", NoPanic, Zero, TRUE, {})
    ELSE CloseChan(c)

\* The closure of Close: the inner nil check, then `close(c)`.
CloseBody(c, h) ==
    IF IsNil(h) THEN Out(c, "done", NoPanic, Zero, TRUE, {})
    ELSE IF h = NilChan THEN Out(c, "panic", PanicCloseNil, Zero, TRUE, {})
    ELSE CloseChan(c)

\* SendErr of a closure that sets the error although `c <- value` returned.
SendErrAfterSend(h) == IF IsNil(h) THEN ErrSendNil ELSE ErrSendPanic

\* The error the closure leaves in err before the deferred function runs.
SendErr(h) == IF IsNil(h) THEN ErrSendNil ELSE NoErr

\* ReceiveErr that does not look at ok.
ReceiveErrIgnoreOk(h, ok) ==
    IF IsNil(h) THEN ErrRecvNil ELSE NoErr

\* ReceiveErr with the test of ok inverted.
ReceiveErrInverted(h, ok) ==
    IF IsNil(h) THEN ErrRecvNil ELSE IF ok THEN ErrRecvClosed ELSE NoErr

\* ReceiveErr that reports a closed channel with the text of a panic.
ReceiveErrAsPanic(h, ok) ==
    IF IsNil(h) THEN ErrRecvNil ELSE IF ~ok THEN ErrRecvPanic ELSE NoErr

\* ReceiveErr that reports a closed channel whatever `<-c` yielded.
ReceiveErrAlways(h, ok) ==
    IF IsNil(h) THEN ErrRecvNil ELSE ErrRecvClosed

ReceiveErr(h, ok) ==
    IF IsNil(h) THEN ErrRecvNil ELSE IF ~ok THEN ErrRecvClosed ELSE NoErr

CloseErr(h) == IF IsNil(h) THEN ErrCloseNil ELSE NoErr

\* ------------------------------------------------- steps of a goroutine
\* The program counters after goroutine t moves to newpc and wakes `wakes`.
PcAfter(t, newpc, wakes) ==
    [x \in Threads |->
        IF x = t THEN newpc
        ELSE IF \E w \in wakes : w.t = x THEN "woken"
        ELSE pc[x]]

WakeAfter(t, wakes) ==
    [x \in Threads |->
        IF x = t THEN NoWake
        ELSE IF \E w \in wakes : w.t = x
        THEN LET w == CHOOSE w \in wakes : w.t = x
             IN  [ok |-> w.ok, v |-> w.v]
        ELSE wake[x]]

\* The end of the call of goroutine t whose closure ended with panic value r
\* (NoPanic: it returned) and whose deferred function gave d: the call
\* returns (v, d.err), or the panic goes on and takes the process down.
EndCall(t, d, v, r, saw, wakes) ==
    /\ crashed' = d.crash
    /\ pc' = PcAfter(t, IF d.crash THEN "panicked" ELSE "idle", wakes)
    /\ wake' = WakeAfter(t, wakes)
    /\ IF d.crash
       THEN UNCHANGED <<ret, arg>>
       ELSE /\ ret' = Returned(t, arg[t].op, arg[t].ch, arg[t].v, d.err, v, r,
                            saw)
            /\ arg' = [arg EXCEPT ![t] = NoArg]

\* The call of goroutine t with a nil argument returns (Zero, err) from the
\* first check, before the closure.
EarlyReturn(t, op, h, a, err) ==
    /\ ret' = Returned(t, op, h, a, err, Zero, NoPanic, "none")
    /\ UNCHANGED <<pc, arg>>

\* The call of goroutine t enters its closure.
Enter(t, op, h, a) ==
    /\ pc' = [pc EXCEPT ![t] = "guarded"]
    /\ arg' = [arg EXCEPT ![t] = [op |-> op, ch |-> h, v |-> a]]
    /\ UNCHANGED ret

\* Send(ch, value) is called: `if ch == nil { return ... }`, else the
\* closure is entered.
Send(t, h) ==
    /\ ~crashed
    /\ pc[t] = "idle"
    /\ nextVal <= MaxVal
    /\ nextVal' = nextVal + 1
    /\ IF IsNil(h)
       THEN /\ EarlyReturn(t, "Send", h, nextVal, ErrSendNil)
            /\ sendRes' = [sendRes EXCEPT ![nextVal] = ErrSendNil]
       ELSE /\ Enter(t, "Send", h, nextVal)
            /\ sendRes' = [sendRes EXCEPT ![nextVal] = "pending"]
    /\ UNCHANGED <<ch, mem, wake, crashed, sendLog, recvLog, closeOk>>

\* The closure of Send runs up to the end of the call or to the point where
\* `c <- value` parks the goroutine.
SendStmt(t) ==
    /\ ~crashed
    /\ pc[t] = "guarded"
    /\ arg[t].op = "Send"
    /\ LET out == SendBody(ch, t, arg[t].ch, arg[t].v)
           d   == SendDeferred(out.r, SendErr(arg[t].ch))
       IN  /\ ch' = out.c
           /\ IF out.res \in {"park", "never"}
              THEN /\ pc' = [pc EXCEPT ![t] = "parked"]
                   /\ UNCHANGED <<arg, ret, wake, crashed, sendRes>>
              ELSE /\ EndCall(t, d, Zero, out.r, Saw(ch, arg[t].ch),
                              out.wakes)
                   /\ sendRes' = [sendRes EXCEPT ![arg[t].v] =
                                    IF d.crash THEN @ ELSE d.err]
           /\ sendLog' = IF out.c # ch THEN Append(sendLog, arg[t].v)
                         ELSE sendLog
    /\ UNCHANGED <<mem, nextVal, recvLog, closeOk>>

\* A parked `c <- value` is resumed: by a receiver that took the value, or
\* by close, and then it panics.
SendWake(t) ==
    /\ ~crashed
    /\ pc[t] = "woken"
    /\ arg[t].op = "Send"
    /\ LET r == IF wake[t].ok THEN NoPanic ELSE PanicSendClosed
           d == SendDeferred(r, NoErr)
       IN  /\ EndCall(t, d, Zero, r, "parked", {})
           /\ sendRes' = [sendRes EXCEPT ![arg[t].v] =
                            IF d.crash THEN @ ELSE d.err]
    /\ UNCHANGED <<ch, mem, nextVal, sendLog, recvLog, closeOk>>

\* Receive(ch) is called: `if ch == nil { return result, ... }`, else the
\* closure is entered.
Receive(t, h) ==
    /\ ~crashed
    /\ pc[t] = "idle"
    /\ IF IsNil(h)
       THEN EarlyReturn(t, "Receive", h, Zero, ErrRecvNil)
       ELSE Enter(t, "Receive", h, Zero)
    /\ UNCHANGED <<ch, mem, wake, nextVal, crashed, sendRes, sendLog, recvLog,
                   closeOk>>

\* The closure of Receive runs up to the end of the call or to the point
\* where `<-c` parks the goroutine.
ReceiveStmt(t) ==
    /\ ~crashed
    /\ pc[t] = "guarded"
    /\ arg[t].op = "Receive"
    /\ LET out == ReceiveBody(ch, t, arg[t].ch)
           d   == ReceiveDeferred(out.r, ReceiveErr(arg[t].ch, out.ok))
       IN  /\ ch' = out.c
           /\ IF out.res \in {"park", "never"}
              THEN /\ pc' = [pc EXCEPT ![t] = "parked"]
                   /\ UNCHANGED <<arg, ret, wake, crashed, recvLog>>
              ELSE /\ EndCall(t, d, out.v, out.r, Saw(ch, arg[t].ch),
                              out.wakes)
                   /\ recvLog' = IF ~d.crash /\ d.err = NoErr
                                 THEN Append(recvLog, out.v) ELSE recvLog
    /\ UNCHANGED <<mem, nextVal, sendRes, sendLog, closeOk>>

\* A parked `<-c` is resumed: by a sender that handed its value over, or by
\* close with (zero, false).
ReceiveWake(t) ==
    /\ ~crashed
    /\ pc[t] = "woken"
    /\ arg[t].op = "Receive"
    /\ LET d == ReceiveDeferred(NoPanic, ReceiveErr(arg[t].ch, wake[t].ok))
       IN  /\ EndCall(t, d, wake[t].v, NoPanic, "parked", {})
           /\ recvLog' = IF ~d.crash /\ d.err = NoErr
                         THEN Append(recvLog, wake[t].v) ELSE recvLog
    /\ UNCHANGED <<ch, mem, nextVal, sendRes, sendLog, closeOk>>

\* Close(ch) is called: `if ch == nil { return ... }`, else the closure is
\* entered.
Close(t, h) ==
    /\ ~crashed
    /\ pc[t] = "idle"
    /\ IF IsNil(h)
       THEN EarlyReturn(t, "Close", h, Zero, ErrCloseNil)
       ELSE Enter(t, "Close", h, Zero)
    /\ UNCHANGED <<ch, mem, wake, nextVal, crashed, sendRes, sendLog, recvLog,
                   closeOk>>

\* The closure of Close runs to the end of the call, or to the point where
\* its body leaves the goroutine waiting (close(c) itself never does).
CloseStmt(t) ==
    /\ ~crashed
    /\ pc[t] = "guarded"
    /\ arg[t].op = "Close"
    /\ LET out == CloseBody(ch, arg[t].ch)
           d   == CloseDeferred(out.r, CloseErr(arg[t].ch))
       IN  /\ ch' = out.c
           /\ IF out.res \in {"park", "never"}
              THEN /\ pc' = [pc EXCEPT ![t] = "parked"]
                   /\ UNCHANGED <<arg, ret, wake, crashed, closeOk>>
              ELSE /\ EndCall(t, d, Zero, out.r, Saw(ch, arg[t].ch),
                              out.wakes)
                   /\ closeOk' = IF ~d.crash /\ d.err = NoErr
                                 THEN closeOk + 1 ELSE closeOk
    /\ UNCHANGED <<mem, nextVal, sendRes, sendLog, recvLog>>

\* Deref(ptr): the nil check, then `x = *ptr` under the deferred recover.
\* Reading a variable through a non-nil pointer does not panic.
Deref(t, p) ==
    /\ ~crashed
    /\ pc[t] = "idle"
    /\ LET d == DerefDeferred(NoPanic, NoErr)
       IN  IF IsNil(p)
           THEN /\ EarlyReturn(t, "Deref", p, Zero, ErrDerefNil)
                /\ UNCHANGED crashed
           ELSE /\ crashed' = d.crash
                /\ ret' = IF d.crash THEN ret
                          ELSE Returned(t, "Deref", p, Zero, d.err, mem[p],
                                        NoPanic, "none")
                /\ UNCHANGED <<pc, arg>>
    /\ UNCHANGED <<ch, mem, wake, nextVal, sendRes, sendLog, recvLog, closeOk>>

Next ==
    \E t \in Threads :
        \/ \E h \in Handles : Send(t, h)
        \/ SendStmt(t)
        \/ SendWake(t)
        \/ \E h \in Handles : Receive(t, h)
        \/ ReceiveStmt(t)
        \/ ReceiveWake(t)
        \/ \E h \in Handles : Close(t, h)
        \/ CloseStmt(t)
        \/ \E p \in Ptrs \cup {NilPtr} : Deref(t, p)

Spec == Init /\ [][Next]_vars

\* The scheduler runs every goroutine that can run: a call in progress
\* that is not parked takes its next step.  Nothing obliges a goroutine to
\* make a further call.
Step(t) ==
    SendStmt(t) \/ SendWake(t) \/ ReceiveStmt(t) \/ ReceiveWake(t)
        \/ CloseStmt(t)

FairSpec == Spec /\ \A t \in Threads : WF_vars(Step(t))

\* ============================================================ properties
ChanOps == {"Send", "Receive", "Close"}

\* Goroutine t runs the channel statement of its call of op in this step.
StmtBy(t, op) ==
    /\ pc[t] = "guarded"
    /\ arg[t].op = op
    /\ arg[t].ch = TheChan
    /\ pc'[t] # "guarded"

\* Goroutine t, woken in its call of op, resumes in this step.
WakeBy(t, op) ==
    /\ pc[t] = "woken"
    /\ arg[t].op = op
    /\ pc'[t] # "woken"

\* The kinds of outcome each operation on a non-nil channel may have.
WellFormed(op) ==
    CASE op = "Send"    -> {"Success", "OperationFault"}
      [] op = "Close"   -> {"Success", "OperationFault"}
      [] op = "Receive" -> {"Success", "ClosedChannel", "OperationFault"}

\* C1: under every interleaving of Close, Send and Receive calls on the same
\* non-nil channel no panic leaves a call (the process never crashes), every
\* step that ends a call ends it with exactly one outcome, recorded for that
\* call, of a kind well formed for its operation, and a recovered panic always
\* shows as an OperationFault of the call that raised it.
C1_RaceOutcomesWellFormed ==
    /\ [](~crashed /\ \A t \in Threads : pc[t] # "panicked")
    /\ [](ret.op \in ChanOps /\ ret.ch = TheChan
            => /\ Kind(ret.err) \in WellFormed(ret.op)
               /\ (ret.r # NoPanic <=> Kind(ret.err) = "OperationFault"))
    /\ [][\A t \in Threads : \A op \in ChanOps :
            (StmtBy(t, op) \/ WakeBy(t, op)) /\ pc'[t] # "parked"
              => /\ pc'[t] = "idle"
                 /\ ret'.t = t /\ ret'.op = op /\ ret'.ch = TheChan
                 /\ ret'.arg = arg[t].v
                 /\ Kind(ret'.err) \in WellFormed(op)]_vars

\* A Send lost the race against a Close (it parked, the channel was closed
\* under it, its panic was recovered) while another Close is still running.
C1_Witness ==
    /\ ret.op = "Send" /\ ret.saw = "parked" /\ ret.r = PanicSendClosed
    /\ Kind(ret.err) = "OperationFault"
    /\ \E t \in Threads : pc[t] = "guarded" /\ arg[t].op = "Close"

\* C2: Close, Send and Receive on the nil channel return in the step that
\* calls them, with a NilChannel error (Receive with the zero value too);
\* such a call never enters its closure, so it never waits, and it changes
\* neither the state nor the buffer of the channel, nor what was received.
C2_NilChannelRejected ==
    /\ [](ret.op \in ChanOps /\ ret.ch = NilChan
            => Kind(ret.err) = "NilChannel" /\ ret.v = Zero
               /\ ret.r = NoPanic /\ ret.saw = "none")
    /\ [](\A t \in Threads : pc[t] # "idle" => arg[t].ch = TheChan)
    /\ [][ret' # ret /\ ret'.op \in ChanOps /\ ret'.ch = NilChan
            => /\ ch' = ch /\ recvLog' = recvLog /\ sendLog' = sendLog
               /\ pc' = pc /\ pc[ret'.t] = "idle"
               /\ Kind(ret'.err) = "NilChannel"]_vars

\* A Receive on the nil channel has returned while the channel made by make
\* holds a buffered value and another goroutine waits on it.
C2_Witness ==
    /\ ret.op = "Receive" /\ ret.ch = NilChan /\ ret.err = ErrRecvNil
    /\ ch.buf # <<>>
    /\ \E t \in Threads : pc[t] = "parked"

\* C3: a Send whose `c <- value` finds the channel closed returns an
\* OperationFault error and leaves the channel, its buffer and its queues as
\* they were; the value of a Send that returned an OperationFault is in no
\* buffer, is handed to no receiver and was returned by no Receive.
C3_SendOnClosedFaults ==
    /\ [][\A t \in Threads :
            StmtBy(t, "Send") /\ ch.closed
              => /\ ret' = Returned(t, "Send", TheChan, arg[t].v, ErrSendPanic,
                                    Zero, PanicSendClosed, "closed")
                 /\ sendRes'[arg[t].v] = ErrSendPanic
                 /\ ch' = ch /\ wake' = wake /\ recvLog' = recvLog]_vars
    /\ [](\A v \in Values :
            sendRes[v] = ErrSendPanic
              => /\ v \notin Range(recvLog)
                 /\ v \notin Range(ch.buf)
                 /\ \A t \in Threads :
                       pc[t] = "woken" /\ arg[t].op = "Receive"
                         => wake[t].v # v)

\* A Send found the channel closed and returned its OperationFault, and a
\* Receive made afterwards has returned ClosedChannel.
C3_Witness ==
    /\ ret.op = "Receive" /\ ret.saw = "closed" /\ ret.err = ErrRecvClosed
    /\ \E v \in Values : sendRes[v] = ErrSendPanic /\ v \notin Range(sendLog)

\* C4: a Close whose close(c) finds the channel open returns a nil error and
\* leaves the channel closed with its buffer untouched; every Receive whose
\* `<-c` runs on the closed channel once the buffer is drained, and every
\* Receive that close woke, returns an error of kind ClosedChannel, not
\* OperationFault.
C4_CloseOpenThenDrained ==
    /\ [][\A t \in Threads :
            StmtBy(t, "Close") /\ ~ch.closed
              => /\ ret' = Returned(t, "Close", TheChan, Zero, NoErr, Zero,
                                    NoPanic, "open")
                 /\ ch'.closed /\ ch'.buf = ch.buf]_vars
    /\ [][\A t \in Threads :
            (\/ StmtBy(t, "Receive") /\ ch.closed /\ ch.buf = <<>>
             \/ WakeBy(t, "Receive") /\ ~wake[t].ok)
              => /\ ret'.t = t /\ ret'.op = "Receive"
                 /\ Kind(ret'.err) = "ClosedChannel"
                 /\ ret'.r = NoPanic]_vars

\* A Close found the channel open with a value in its buffer, and after that
\* value was received a Receive on the closed, drained channel returned
\* ClosedChannel.
C4_Witness ==
    /\ ch.closed /\ ch.buf = <<>>
    /\ ret.op = "Receive" /\ ret.saw = "closed"
    /\ Kind(ret.err) = "ClosedChannel"
    /\ recvLog # <<>>

\* C5: a Close whose close(c) finds the channel closed returns an
\* OperationFault error carrying the recovered panic, changes nothing in the
\* channel and crashes nothing; a Close returns a nil error only by closing
\* an open channel, and a closed channel stays closed, so at most the first
\* Close of a channel returns no error and every later one returns an error.
C5_CloseClosedFaults ==
    /\ [][\A t \in Threads :
            StmtBy(t, "Close") /\ ch.closed
              => /\ ret' = Returned(t, "Close", TheChan, Zero, ErrClosePanic,
                                    Zero, PanicCloseClosed, "closed")
                 /\ Kind(ret'.err) = "OperationFault"
                 /\ ch' = ch /\ ~crashed' /\ pc'[t] = "idle"]_vars
    /\ [][\A t \in Threads :
            StmtBy(t, "Close") /\ ret'.err = NoErr
              => ~ch.closed /\ ch'.closed]_vars
    /\ [][ch.closed => ch'.closed]_vars

\* The channel is closed, a Close of it has just returned an OperationFault,
\* and a further Close is on its way.
C5_Witness ==
    /\ ch.closed
    /\ ret.op = "Close" /\ ret.saw = "closed" /\ ret.err = ErrClosePanic
    /\ ret.r = PanicCloseClosed
    /\ \E t \in Threads : pc[t] = "guarded" /\ arg[t].op = "Close"

\* C6: a Receive whose `<-c` finds the channel closed with an empty buffer
\* returns (zero value, ClosedChannel error) in that very step, without
\* parking and without touching the channel; that step is enabled whatever
\* the other goroutines do, and no receiver is ever parked on a closed
\* channel.
C6_ReceiveClosedEmpty ==
    /\ [][\A t \in Threads :
            StmtBy(t, "Receive") /\ ch.closed /\ ch.buf = <<>>
              => /\ ret' = Returned(t, "Receive", TheChan, Zero, ErrRecvClosed,
                                    Zero, NoPanic, "closed")
                 /\ pc'[t] = "idle"
                 /\ ch' = ch]_vars
    /\ [](\A t \in Threads :
            pc[t] = "guarded" /\ arg[t].op = "Receive" /\ ch.closed
              => ENABLED ReceiveStmt(t))
    /\ [](ch.closed
            => /\ ch.recvq = <<>>
               /\ \A t \in Threads :
                     ~(pc[t] = "parked" /\ arg[t].op = "Receive"))

\* On a closed, empty channel on which nothing was ever sent, a Receive has
\* returned the zero value and ClosedChannel while every other goroutine is
\* idle.
C6_Witness ==
    /\ ch.closed /\ ch.buf = <<>> /\ sendLog = <<>>
    /\ ret = Returned(ret.t, "Receive", TheChan, Zero, ErrRecvClosed, Zero,
                      NoPanic, "closed")
    /\ \A t \in Threads : pc[t] = "idle"

Pos(s, v) == CHOOSE k \in 1..Len(s) : s[k] = v

SendqVals(c) == {c.sendq[i].v : i \in 1..Len(c.sendq)}

\* C9: a Receive whose `<-c` runs on an open channel that holds a buffered
\* value or has a sender parked returns, without waiting and with a nil
\* error, the oldest buffered value or, the buffer being empty, the value of
\* the sender parked longest; that value is then no longer in the channel,
\* which holds one value less.
C9_ReceiveOpenDelivers ==
    [][\A t \in Threads :
         StmtBy(t, "Receive") /\ ~ch.closed
         /\ (ch.buf # <<>> \/ ch.sendq # <<>>)
           => LET v == IF ch.buf # <<>> THEN Head(ch.buf)
                       ELSE Head(ch.sendq).v
              IN  /\ ret' = Returned(t, "Receive", TheChan, Zero, NoErr, v,
                                     NoPanic, "open")
                  /\ pc'[t] = "idle"
                  /\ recvLog' = Append(recvLog, v)
                  /\ v \notin Range(ch'.buf) \cup SendqVals(ch')
                  /\ Len(ch'.buf) + Len(ch'.sendq)
                       = Len(ch.buf) + Len(ch.sendq) - 1]_vars

\* A Receive on an open, full channel with a sender parked has returned the
\* buffered value; the sender's value has moved into the buffer and the
\* sender is woken.
C9_Witness ==
    /\ ~ch.closed /\ ch.buf # <<>>
    /\ ret.op = "Receive" /\ ret.saw = "open" /\ ret.err = NoErr
    /\ ret.v # Zero
    /\ \E t \in Threads :
          pc[t] = "woken" /\ arg[t].op = "Send" /\ arg[t].v \in Range(ch.buf)

\* Goroutine t is inside a call.
InCall(t) == pc[t] \in {"guarded", "parked", "woken"}

\* Goroutine t waits in a send or receive statement on the open channel,
\* which cannot serve it: a sender finds the buffer full and no receiver
\* parked, a receiver finds the buffer empty and no sender parked.
WaitsOnOpen(t) ==
    /\ pc[t] = "parked"
    /\ ~ch.closed
    /\ arg[t].ch = TheChan
    /\ \/ /\ arg[t].op = "Send"
          /\ \E i \in 1..Len(ch.sendq) : ch.sendq[i].t = t
          /\ Len(ch.buf) = ch.cap /\ ch.recvq = <<>>
       \/ /\ arg[t].op = "Receive"
          /\ \E i \in 1..Len(ch.recvq) : ch.recvq[i] = t
          /\ ch.buf = <<>> /\ ch.sendq = <<>>

\* C10 as claimed: every call that is made returns.
C10_AsClaimed ==
    \A t \in Threads : InCall(t) ~> (pc[t] = "idle")

\* C10 amended: every call returns unless it is a Send or Receive waiting on
\* the open channel for a partner or for buffer space: a call that does not
\* wait takes its next step and returns or comes to wait, no call is ended
\* by a panic, and a goroutine waits only in a Send or Receive on an open
\* channel that cannot serve it (so every Close, every Deref and every call
\* on a nil or closed channel returns).
C10_ReturnsUnlessWaitingOnOpen ==
    /\ \A t \in Threads :
          (pc[t] \in {"guarded", "woken"}) ~> (pc[t] = "idle" \/ WaitsOnOpen(t))
    /\ [](\A t \in Threads : pc[t] = "parked" => WaitsOnOpen(t))
    /\ [](\A t \in Threads : pc[t] \in {"idle", "guarded", "parked", "woken"})
    /\ [][\A t \in Threads :
            StmtBy(t, "Close") \/ (StmtBy(t, "Send") /\ ch.closed)
            \/ (StmtBy(t, "Receive") /\ ch.closed)
              => pc'[t] = "idle"]_vars

\* A Send that had to wait on the open channel has returned with a nil
\* error, while another goroutine waits in a Receive on the open channel.
C10_Witness ==
    /\ ret.op = "Send" /\ ret.saw = "parked" /\ ret.err = NoErr
    /\ \E t \in Threads : WaitsOnOpen(t) /\ arg[t].op = "Receive"

\* The values woken receivers hold and have not returned yet.
InHand == {wake[t].v : t \in {x \in Threads :
                                pc[x] = "woken" /\ arg[x].op = "Receive"
                                /\ wake[x].ok}}

\* C11: on the open channel a Send whose `c <- value` finds the buffer full
\* and no receiver parked does not return: it parks, and so does a Receive
\* whose `<-c` finds no buffered value and no sender parked; a parked call
\* leaves its wait only when another goroutine's statement wakes it; a Send
\* that returned a nil error has had its value stored in the buffer or
\* taken by a receiver; and a call that had to wait returns an error only
\* if the channel has been closed, never when it was woken by its partner.
C11_BlockingPreserved ==
    /\ [][\A t \in Threads :
            /\ (StmtBy(t, "Send") /\ ~ch.closed
                /\ Len(ch.buf) = ch.cap /\ ch.recvq = <<>>
                  => /\ pc'[t] = "parked" /\ ret' = ret
                     /\ sendRes'[arg[t].v] = "pending")
            /\ (StmtBy(t, "Receive") /\ ~ch.closed
                /\ ch.buf = <<>> /\ ch.sendq = <<>>
                  => pc'[t] = "parked" /\ ret' = ret /\ recvLog' = recvLog)
            /\ (pc[t] = "parked" /\ pc'[t] # "parked"
                  => /\ pc'[t] = "woken" /\ ret'.t # t
                     /\ \E x \in Threads \ {t} :
                           \E op \in ChanOps : StmtBy(x, op))
            /\ (\A op \in {"Send", "Receive"} :
                  WakeBy(t, op) /\ wake[t].ok => ret'.err = NoErr)]_vars
    /\ [](\A v \in Values :
            sendRes[v] = NoErr
              => v \in Range(ch.buf) \cup Range(recvLog) \cup InHand)
    /\ [](ret.saw = "parked" /\ ret.err # NoErr => ch.closed)

\* On the channel still open a Receive that had to wait has returned the
\* value a later Send handed to it, with a nil error.
C11_Witness ==
    /\ ~ch.closed /\ closeOk = 0
    /\ ret.op = "Receive" /\ ret.saw = "parked"
    /\ ret.err = NoErr /\ ret.v \in Values
    /\ sendRes[ret.v] = NoErr

\* C12: a Close never waits.  On the nil channel it returns in the step that
\* calls it; on the channel made by make its closure is always able to run,
\* and runs to the return of the call in one step, whether the channel is
\* open or closed, its buffer full or not, senders or receivers parked on it
\* or not; no goroutine is ever parked or woken inside a Close.
C12_CloseNeverBlocks ==
    /\ [](\A t \in Threads :
            arg[t].op = "Close"
              => pc[t] = "guarded" /\ ENABLED CloseStmt(t))
    /\ [][\A t \in Threads :
            pc[t] = "guarded" /\ arg[t].op = "Close" /\ pc'[t] # pc[t]
              => pc'[t] = "idle" /\ ret'.t = t /\ ret'.op = "Close"]_vars
    /\ [][ret' # ret /\ ret'.op = "Close" /\ ret'.ch = NilChan
            => pc' = pc /\ pc[ret'.t] = "idle"]_vars

\* A Close has returned a nil error on a channel whose buffer was full and
\* on which a sender was parked; the sender is woken by it.
C12_Witness ==
    /\ ret.op = "Close" /\ ret.err = NoErr /\ ret.saw = "open"
    /\ ch.cap > 0 /\ Len(ch.buf) = ch.cap
    /\ \E t \in Threads :
          pc[t] = "woken" /\ arg[t].op = "Send" /\ ~wake[t].ok

\* C13: the life of a channel goes one way.  The nil channel stays absent:
\* every call on it, at any time, finds no channel and touches none.  The
\* channel made by make keeps its capacity, changes state only from open to
\* closed, only in the close(c) of a Close that returns a nil error, and at
\* most once; once closed it is never open again.
C13_LifecycleMonotonic ==
    /\ [](ret.op \in ChanOps /\ ret.ch = NilChan
            => Kind(ret.err) = "NilChannel" /\ ret.saw = "none")
    /\ [][ret' # ret /\ ret'.op \in ChanOps /\ ret'.ch = NilChan
            => ch' = ch]_vars
    /\ [][ch'.cap = ch.cap]_vars
    /\ [][ch.closed => ch'.closed]_vars
    /\ [][ch'.closed # ch.closed
            => /\ ~ch.closed /\ ch'.closed
               /\ closeOk' = closeOk + 1
               /\ \E t \in Threads :
                     StmtBy(t, "Close") /\ ret'.t = t /\ ret'.err = NoErr]_vars
    /\ [](closeOk = IF ch.closed THEN 1 ELSE 0)

\* The channel was closed once, and a further Close found it closed and left
\* it closed.
C13_Witness ==
    /\ ch.closed /\ closeOk = 1
    /\ ret.op = "Close" /\ ret.saw = "closed" /\ ret.err = ErrClosePanic

\* C14: a Deref of a pointer to a variable returns the value of that
\* variable and a nil error; a Deref of the nil pointer returns the zero
\* value and the NilReference error; a Deref returns in the step that calls
\* it and no step changes a variable a pointer designates.
C14_DerefReturnsReferent ==
    /\ [](ret.op = "Deref"
            => /\ ret.r = NoPanic
               /\ IF ret.ch = NilPtr
                  THEN ret.v = Zero /\ ret.err = ErrDerefNil
                       /\ Kind(ret.err) = "NilReference"
                  ELSE ret.ch \in Ptrs /\ ret.v = mem[ret.ch]
                       /\ ret.err = NoErr)
    /\ [][ret' # ret /\ ret'.op = "Deref"
            => pc' = pc /\ pc[ret'.t] = "idle" /\ ch' = ch]_vars
    /\ [][mem' = mem]_vars

\* A Deref of the pointer to a variable holding 1 has returned 1 and a nil
\* error.
C14_Witness ==
    /\ ret.op = "Deref" /\ ret.ch = "p1"
    /\ ret.v = 1 /\ ret.err = NoErr /\ mem["p1"] = 1

\* A sender parked in `c <- value` that close(c) has woken and that has not
\* yet resumed.
ClosedOut(t) ==
    pc[t] = "woken" /\ arg[t].op = "Send" /\ ~wake[t].ok

\* C15: the close(c) of a Close that finds the channel open wakes every
\* sender parked on it, without taking its value into the channel; each such
\* Send then returns the OperationFault error of the recovered panic,
\* without ending the process; and the value of such a Send is at no time
\* in the buffer, in the hands of a receiver or among the values Receive
\* calls returned.
C15_BlockedSendFaultsOnClose ==
    /\ [][\A t \in Threads :
            StmtBy(t, "Close") /\ ~ch.closed
              => /\ ch'.sendq = <<>> /\ ch'.buf = ch.buf
                 /\ \A i \in 1..Len(ch.sendq) :
                       /\ pc'[ch.sendq[i].t] = "woken"
                       /\ ~wake'[ch.sendq[i].t].ok
                       /\ arg'[ch.sendq[i].t].v = ch.sendq[i].v]_vars
    /\ [][\A t \in Threads :
            WakeBy(t, "Send") /\ ~wake[t].ok
              => /\ ~crashed' /\ pc'[t] = "idle"
                 /\ ret'.t = t /\ ret'.op = "Send" /\ ret'.arg = arg[t].v
                 /\ ret'.err = ErrSendPanic
                 /\ Kind(ret'.err) = "OperationFault"
                 /\ ret'.saw = "parked"
                 /\ sendRes'[arg[t].v] = ErrSendPanic]_vars
    /\ [](\A t \in Threads :
            ClosedOut(t)
              => /\ ch.closed
                 /\ arg[t].v \notin Range(ch.buf) \cup InHand
                                  \cup Range(recvLog))
    /\ [](ret.op = "Send" /\ ret.saw = "parked" /\ ret.err # NoErr
            => /\ ch.closed
               /\ ret.arg \notin Range(ch.buf) \cup InHand
                                \cup Range(recvLog) \cup SendqVals(ch))

\* A Send that was parked on the open channel when another goroutine closed
\* it has returned OperationFault, and no Receive has returned its value.
C15_Witness ==
    /\ ch.closed /\ closeOk = 1
    /\ ret.op = "Send" /\ ret.saw = "parked"
    /\ Kind(ret.err) = "OperationFault"
    /\ ret.arg \in Range(sendLog) \ Range(recvLog)

\* C16: of the Close calls on the channel exactly one returns a nil error:
\* the one whose close(c) finds the channel open.  Every Close whose
\* close(c) runs after it, calls that passed their nil check while the
\* channel was open included, returns OperationFault, and none ends the
\* process.
C16_OneCloseWins ==
    /\ [][\A t \in Threads :
            StmtBy(t, "Close")
              => /\ ~crashed' /\ pc'[t] = "idle"
                 /\ ret'.t = t /\ ret'.op = "Close"
                 /\ IF ch.closed
                    THEN /\ Kind(ret'.err) = "OperationFault"
                         /\ closeOk' = closeOk
                    ELSE /\ ret'.err = NoErr
                         /\ closeOk' = closeOk + 1]_vars
    /\ [](closeOk <= 1)
    /\ [](ret.op = "Close" /\ ret.ch = TheChan => closeOk = 1)
    /\ [](ret.op = "Close" /\ ret.ch = TheChan /\ ret.err = NoErr
            => ret.saw = "open")

\* Two goroutines are in Close on the channel: the close(c) of one has
\* returned a nil error, the other is past its nil check and has yet to run
\* its close(c).
C16_Witness ==
    /\ closeOk = 1
    /\ ret.op = "Close" /\ ret.ch = TheChan /\ ret.err = NoErr
    /\ \E t \in Threads \ {ret.t} :
          pc[t] = "guarded" /\ arg[t].op = "Close" /\ arg[t].ch = TheChan

\* The call of goroutine t returns an error in this step, from its closure.
Fails(t) ==
    /\ pc[t] \in {"guarded", "woken"}
    /\ pc'[t] = "idle"
    /\ ret'.t = t /\ ret'.err # NoErr

\* C17: a call that returns an error has not changed the channel.  The step
\* in which a call returns an error leaves the channel as it is: closed
\* flag, capacity, buffer and queues; so do in particular a Send and a Close
\* whose statement finds the channel closed and a Receive that returns
\* ClosedChannel.  Before that step such a call has at most parked, which
\* touches neither the closed flag nor the buffer, and a step that returns
\* from the nil check or enters the closure touches no channel at all.
C17_FailedCallLeavesChannel ==
    /\ [][\A t \in Threads : Fails(t) => ch' = ch]_vars
    /\ [][\A t \in Threads :
            (StmtBy(t, "Send") \/ StmtBy(t, "Close")) /\ ch.closed
              => Fails(t) /\ ch' = ch]_vars
    /\ [][\A t \in Threads :
            /\ StmtBy(t, "Receive") \/ WakeBy(t, "Receive")
            /\ pc'[t] = "idle" /\ ret'.err = ErrRecvClosed
            => /\ ch'.closed = ch.closed /\ ch'.buf = ch.buf
               /\ ch' = ch]_vars
    /\ [][\A t \in Threads :
            pc[t] = "guarded" /\ pc'[t] = "parked"
              => /\ ch'.closed = ch.closed /\ ch'.buf = ch.buf
                 /\ ch'.cap = ch.cap]_vars
    /\ [][ch' # ch
            => \E t \in Threads :
                  /\ pc[t] = "guarded" /\ arg[t].ch = TheChan
                  /\ pc'[t] # "guarded"
                  /\ pc'[t] = "idle" => ret'.t = t /\ ret'.err = NoErr]_vars

\* A Send has failed on the closed channel, whose buffer still holds the
\* value an earlier Send stored.
C17_Witness ==
    /\ ch.closed /\ ch.buf # <<>>
    /\ ret.op = "Send" /\ ret.saw = "closed" /\ ret.err = ErrSendPanic
    /\ ch.buf = sendLog /\ recvLog = <<>>

\* The number of places of the sequence s that hold v.
Count(s, v) == Cardinality({i \in 1..Len(s) : s[i] = v})

\* The Send calls that returned an error.
FailedSends ==
    {v \in Values : sendRes[v] \notin {"unsent", "pending", NoErr}}

\* C18: every value a Receive returned with a nil error was passed to a Send
\* whose send statement took it and which did not return an error: it
\* returned nil or, woken by the receiver, is about to; no value was
\* returned twice, and a value is in one place at a time: with a parked
\* sender, in the buffer, in the hands of a woken receiver or returned; the
\* zero value, which no Send passed, was never returned with a nil error; a
\* value whose Send returned an error is nowhere in the channel and was
\* never returned.
C18_NoFabricatedValues ==
    /\ [](\A v \in Range(recvLog) :
            /\ v \in Values /\ v # Zero
            /\ v \in Range(sendLog)
            /\ \/ sendRes[v] = NoErr
               \/ /\ sendRes[v] = "pending"
                  /\ \E t \in Threads :
                        /\ pc[t] = "woken" /\ arg[t].op = "Send"
                        /\ arg[t].v = v /\ wake[t].ok)
    /\ [](\A v \in Values :
            Count(recvLog, v) + Count(ch.buf, v)
              + Cardinality({i \in 1..Len(ch.sendq) : ch.sendq[i].v = v})
              + Cardinality({t \in Threads :
                               /\ pc[t] = "woken" /\ arg[t].op = "Receive"
                               /\ wake[t].ok /\ wake[t].v = v})
              <= 1)
    /\ [](\A v \in FailedSends :
            v \notin Range(recvLog) \cup Range(ch.buf) \cup InHand
                       \cup SendqVals(ch))
    /\ [][\A t \in Threads :
            WakeBy(t, "Send") /\ wake[t].ok
              => sendRes'[arg[t].v] = NoErr]_vars

\* One value was received from a Send that returned nil, and another Send
\* returned an error: its value was not received.
C18_Witness ==
    /\ recvLog # <<>>
    /\ \A v \in Range(recvLog) : sendRes[v] = NoErr
    /\ \E v \in Values : sendRes[v] = ErrSendPanic /\ v \notin Range(recvLog)

\* C19: once the channel is closed no call stays blocked on it.  The
\* close(c) that closes the channel wakes every goroutine parked on it, and
\* on a closed channel nobody is or comes to be parked; every call in
\* progress while the channel is closed returns, the scheduler running its
\* goroutine.  A Send that close woke and a Send whose statement runs on the
\* closed channel return OperationFault; a Receive that close woke returns
\* ClosedChannel, and a Receive whose statement runs on the closed channel
\* returns the oldest buffered value with a nil error or, the buffer being
\* empty, ClosedChannel.
C19_ClosedChannelReleasesCalls ==
    /\ \A t \in Threads : (ch.closed /\ InCall(t)) ~> (pc[t] = "idle")
    /\ [](ch.closed
            => /\ ch.sendq = <<>> /\ ch.recvq = <<>>
               /\ \A t \in Threads : pc[t] # "parked")
    /\ [][\A t \in Threads :
            StmtBy(t, "Close") /\ ~ch.closed
              => \A x \in Threads :
                    pc[x] = "parked" => pc'[x] = "woken" /\ ~wake'[x].ok]_vars
    /\ [][\A t \in Threads :
            \/ StmtBy(t, "Send") /\ ch.closed
            \/ WakeBy(t, "Send") /\ ~wake[t].ok
            => /\ pc'[t] = "idle" /\ ret'.t = t
               /\ Kind(ret'.err) = "OperationFault"]_vars
    /\ [][\A t \in Threads :
            WakeBy(t, "Receive") /\ ~wake[t].ok
              => /\ pc'[t] = "idle" /\ ret'.t = t
                 /\ Kind(ret'.err) = "ClosedChannel"]_vars
    /\ [][\A t \in Threads :
            StmtBy(t, "Receive") /\ ch.closed
              => /\ pc'[t] = "idle" /\ ret'.t = t
                 /\ IF ch.buf # <<>>
                    THEN ret'.err = NoErr /\ ret'.v = Head(ch.buf)
                    ELSE Kind(ret'.err) = "ClosedChannel"]_vars

\* A Receive that was parked on the open channel when it was closed has
\* returned ClosedChannel, and no call is in progress.
C19_Witness ==
    /\ ch.closed
    /\ ret.op = "Receive" /\ ret.saw = "parked"
    /\ Kind(ret.err) = "ClosedChannel"
    /\ \A t \in Threads : pc[t] = "idle"

\* C20: a Receive never returns OperationFault and never ends in a panic:
\* its deferred function recovers nothing.  It returns NilChannel exactly
\* for the nil channel, ClosedChannel only with the zero value and with the
\* channel closed and its buffer empty, and otherwise a nil error.
C20_ReceiveNeverFaults ==
    /\ [](ret.op = "Receive"
            => /\ ret.r = NoPanic
               /\ ret.err # ErrRecvPanic
               /\ Kind(ret.err) \in {"Success", "NilChannel", "ClosedChannel"}
               /\ Kind(ret.err) = "NilChannel" <=> ret.ch = NilChan
               /\ Kind(ret.err) = "ClosedChannel"
                    => ret.v = Zero /\ ch.closed /\ ch.buf = <<>>)
    /\ [][\A t \in Threads :
            StmtBy(t, "Receive") \/ WakeBy(t, "Receive")
              => /\ ~crashed' /\ pc'[t] \in {"idle", "parked"}
                 /\ pc'[t] = "idle"
                      => /\ ret'.t = t /\ ret'.op = "Receive"
                         /\ Kind(ret'.err) # "OperationFault"]_vars

\* A Receive parked on the channel, which another goroutine closed before
\* starting a Send, has returned ClosedChannel while that Send is in
\* progress.
C20_Witness ==
    /\ ret.op = "Receive" /\ ret.saw = "parked" /\ ret.err = ErrRecvClosed
    /\ ret.r = NoPanic
    /\ \E t \in Threads : pc[t] = "guarded" /\ arg[t].op = "Send"

=============================================================================
